---- MODULE Spec2Model ----
(***************************************************************************)
(* A model of the eggnest retirement simulator: the RMD calculator         *)
(* (eggnest/rmd.py), the holdings tracker (eggnest/holdings.py) and the    *)
(* Monte Carlo year loop (eggnest/simulation.py).                          *)
(*                                                                         *)
(* Amounts of money, rates and periods are exact rationals <<num, den>>    *)
(* (den > 0, lowest terms): the code computes them in binary floating      *)
(* point, and the model abstracts from the rounding of that arithmetic.    *)
(***************************************************************************)
EXTENDS Integers, Sequences, FiniteSets, TLC

VARIABLES
    \* ---- rmd.calculate_rmd (one call) ----
    rmd_balance, rmd_age, rmd_call, rmd_result,
    \* ---- HoldingsTracker ----
    holdings, withdrawal_strategy, h_call, h_before, h_amount, h_age, h_result, h_calls,
    \* ---- MonteCarloSimulator ----
    p, mode, pc, year, paths, failure_year, total_withdrawn, total_taxes,
    either_alive, primary_alive, spouse_alive, initial_withdrawal_rate,
    events, result, tax_failed, run_no, first_result,
    \* the arguments of the last call of tax_calc.calculate_batch_taxes
    tax_call,
    \* ---- returns.generate_blended_returns (one call) ----
    ret_args, ret_outcome, ret_value, rng_draws, ret_trace,
    \* ---- compare_to_annuity (one call), finsim MonteCarloSimulator.run (one call) ----
    cmp_args, cmp_value, fin_params, fin_outcome

rmdVars == <<rmd_balance, rmd_age, rmd_call, rmd_result>>
holdVars == <<holdings, withdrawal_strategy, h_call, h_before, h_amount, h_age, h_result, h_calls>>
simVars == <<p, mode, pc, year, paths, failure_year, total_withdrawn, total_taxes,
             either_alive, primary_alive, spouse_alive, initial_withdrawal_rate,
             events, result, tax_failed, run_no, first_result, tax_call>>
retVars == <<ret_args, ret_outcome, ret_value, rng_draws, ret_trace>>
apiVars == <<cmp_args, cmp_value, fin_params, fin_outcome>>
vars == <<rmdVars, holdVars, simVars, retVars, apiVars>>

\* Python's None and an optional value: <<>> or <<x>>.
None == <<>>
Some(x) == <<x>>
Get(o) == o[1]

-----------------------------------------------------------------------------
(* Exact arithmetic standing for the code's float arithmetic.              *)

Abs(n) == IF n < 0 THEN -n ELSE n

RECURSIVE Gcd(_, _)
Gcd(a, b) == IF b = 0 THEN a ELSE Gcd(b, a % b)

\* n/d in lowest terms, d > 0.
Norm(n, d) ==
    LET g == Gcd(Abs(n), d)
    IN  IF n = 0 THEN <<0, 1>> ELSE <<n \div g, d \div g>>

R(n) == <<n, 1>>
RZero == <<0, 1>>
ROne == <<1, 1>>

\* The operands are in lowest terms; common factors are cancelled before
\* multiplying, which keeps the intermediate integers small.
RAdd(a, b) ==
    LET g == Gcd(a[2], b[2])
    IN  Norm(a[1] * (b[2] \div g) + b[1] * (a[2] \div g), (a[2] \div g) * b[2])
RSub(a, b) == RAdd(a, <<-b[1], b[2]>>)
RMul(a, b) ==
    LET g1 == Gcd(Abs(a[1]), b[2])
        g2 == Gcd(Abs(b[1]), a[2])
    IN  IF a[1] = 0 \/ b[1] = 0 THEN <<0, 1>>
        ELSE <<(a[1] \div g1) * (b[1] \div g2), (a[2] \div g2) * (b[2] \div g1)>>
\* a / b for b # 0
RDiv(a, b) ==
    IF b[1] > 0 THEN RMul(a, <<b[2], b[1]>>)
                ELSE RMul(a, <<-b[2], -b[1]>>)
RLt(a, b) ==
    LET g == Gcd(a[2], b[2])
    IN  a[1] * (b[2] \div g) < b[1] * (a[2] \div g)
RLe(a, b) ==
    LET g == Gcd(a[2], b[2])
    IN  a[1] * (b[2] \div g) <= b[1] * (a[2] \div g)
RMax(a, b) == IF RLt(a, b) THEN b ELSE a
RMin(a, b) == IF RLt(b, a) THEN b ELSE a

RECURSIVE RPow(_, _)
RPow(a, k) == IF k = 0 THEN ROne ELSE RMul(a, RPow(a, k - 1))

\* The sum of f[x] over the finite set S.
RECURSIVE RSum(_, _)
RSum(f, S) ==
    IF S = {} THEN RZero
    ELSE LET x == CHOOSE y \in S : TRUE
         IN  RAdd(f[x], RSum(f, S \ {x}))

Min(a, b) == IF a < b THEN a ELSE b

-----------------------------------------------------------------------------
(* eggnest/rmd.py                                                          *)

RMD_START_AGE == 73
TABLE_MAX_AGE == 120

\* UNIFORM_LIFETIME_TABLE, ages 72..120, the periods in tenths of a year.
UniformLifetimeTenths ==
    <<274, 265, 255, 246, 237, 229, 220, 211, 202, 194, 185, 177, 168, 160,
      152, 144, 137, 129, 122, 115, 108, 101, 95, 89, 84, 78, 73, 68, 64,
      60, 56, 52, 49, 46, 43, 41, 39, 37, 35, 34, 33, 31, 30, 29, 28, 27,
      25, 23, 20>>

TableAges == 72..TABLE_MAX_AGE

UNIFORM_LIFETIME_TABLE == [a \in TableAges |-> Norm(UniformLifetimeTenths[a - 71], 10)]

\* UNIFORM_LIFETIME_TABLE.get(age, UNIFORM_LIFETIME_TABLE[120])
MutDistributionPeriodNoDefault(age) ==
    IF age \in TableAges THEN UNIFORM_LIFETIME_TABLE[age]
    ELSE UNIFORM_LIFETIME_TABLE[RMD_START_AGE]
distribution_period(age) ==
    IF age \in TableAges THEN UNIFORM_LIFETIME_TABLE[age]
    ELSE UNIFORM_LIFETIME_TABLE[TABLE_MAX_AGE]

calculate_rmd(account_balance, age) ==
    IF age < RMD_START_AGE THEN RZero
    ELSE IF RLe(account_balance, RZero) THEN RZero
    ELSE RDiv(account_balance, distribution_period(age))

get_rmd_factor(age) ==
    IF age < RMD_START_AGE THEN RZero
    ELSE RDiv(ROne, distribution_period(age))

-----------------------------------------------------------------------------
(* eggnest/simulation.py: MonteCarloSimulator                              *)

\* Bounds of the model.
NSims == 2
MaxYears == 2

\* self._rng.normal(expected_return, return_volatility): a draw is the mean
\* plus a standard-normal draw times the volatility; the model keeps two
\* standard-normal draws.  With volatility 0 every draw is the mean.
NormalDraws == {-2, 0}

\* The tax service is a function of the amounts it is sent.  The model keeps
\* three services: one answering a refund (no tax once clamped), one a flat
\* bill, and one billing only the paths whose dividend income reaches a
\* threshold.
TaxSchedules == {"refund", "bill", "progressive"}

SpouseInput ==
    [age |-> 64, social_security_monthly |-> 1, social_security_start_age |-> 65,
     pension_annual |-> 30, employment_income |-> 20,
     employment_growth_rate |-> <<1, 10>>, retirement_age |-> 65]

AnnuityInput(type, guarantee) ==
    [monthly_payment |-> 5, annuity_type |-> type, guarantee_years |-> guarantee]

\* Holding(account_type=..., fund=..., balance=...)
Holding(account_type, fund, balance) ==
    [account_type |-> account_type, fund |-> fund, balance |-> balance]

BaseInput ==
    [n_simulations |-> NSims,
     initial_capital |-> 100, annual_spending |-> Some(60),
     target_monthly_income |-> None,
     current_age |-> 65, max_age |-> 65 + MaxYears,
     social_security_monthly |-> 0, social_security_start_age |-> 66,
     pension_annual |-> 0, employment_income |-> 0,
     employment_growth_rate |-> <<1, 10>>, retirement_age |-> 66,
     has_spouse |-> FALSE, spouse |-> None,
     has_annuity |-> FALSE, annuity |-> None,
     include_mortality |-> FALSE,
     expected_return |-> <<1, 2>>, return_volatility |-> ROne,
     dividend_yield |-> <<1, 10>>,
     holdings |-> <<>>, withdrawal_strategy |-> "taxable_first"]

\* The same, on a market without volatility.
CalmInput == [BaseInput EXCEPT !.expected_return = <<1, 20>>, !.return_volatility = RZero]

\* An input that gives its portfolio as holdings, for a retiree of RMD age.
HoldingsInput ==
    [CalmInput EXCEPT !.current_age = 73, !.max_age = 73 + MaxYears,
                      !.holdings = << Holding("traditional_ira", "bnd", R(53)),
                                      Holding("traditional_401k", "vt", R(53)),
                                      Holding("taxable", "vt", R(12)) >>]

\* The SimulationInput values the simulator is constructed with.
SimulationInputs ==
    { BaseInput, HoldingsInput,
      [BaseInput EXCEPT !.include_mortality = TRUE],
      [BaseInput EXCEPT !.pension_annual = 60],
      [CalmInput EXCEPT !.annual_spending = None, !.target_monthly_income = Some(4),
                        !.employment_income = 20, !.social_security_monthly = 1],
      [CalmInput EXCEPT !.include_mortality = TRUE, !.has_spouse = TRUE,
                        !.spouse = Some(SpouseInput), !.n_simulations = NSims - 1],
      [CalmInput EXCEPT !.include_mortality = TRUE, !.pension_annual = 30,
                        !.has_annuity = TRUE,
                        !.annuity = Some(AnnuityInput("life_with_guarantee", 1))],
      [CalmInput EXCEPT !.include_mortality = TRUE, !.has_annuity = TRUE,
                        !.annuity = Some(AnnuityInput("life_only", 0))],
      [CalmInput EXCEPT !.include_mortality = TRUE, !.has_spouse = TRUE,
                        !.spouse = Some(SpouseInput), !.has_annuity = TRUE,
                        !.annuity = Some(AnnuityInput("life_with_guarantee", 1)),
                        !.n_simulations = NSims - 1],
      [CalmInput EXCEPT !.has_annuity = TRUE, !.pension_annual = 40,
                        !.annuity = Some(AnnuityInput("fixed_period", 1))] }

Returns ==
    { RAdd(p.expected_return, RMul(R(z), p.return_volatility)) : z \in NormalDraws }

n_sims == p.n_simulations
Sims == 1..n_sims

n_years == p.max_age - p.current_age
Years == 0..n_years

\* annual_spending, with the target_monthly_income fallback
annual_spending ==
    IF p.annual_spending = None /\ p.target_monthly_income # None
    THEN R(Get(p.target_monthly_income) * 12)
    ELSE R(Get(p.annual_spending))

\* mortality.generate_alive_mask: column 0 is alive and death is absorbing, so
\* a mask is fixed by the first year d in which the path is dead (d = n+1:
\* alive through the last column).
AliveMasks ==
    { [i \in Sims |-> [t \in Years |-> t < d[i]]] : d \in [Sims -> 1..(n_years + 1)] }
AllAlive == [i \in Sims |-> [t \in Years |-> TRUE]]
EitherAlive(a, b) == [i \in Sims |-> [t \in Years |-> a[i][t] \/ b[i][t]]]

HasSpouse == p.has_spouse /\ p.spouse # None
HasAnnuity == p.has_annuity /\ p.annuity # None

\* guaranteed_income, initial_net_need and initial_withdrawal_rate
InitialWithdrawalRate ==
    LET own == p.social_security_monthly * 12 + p.pension_annual
               + (IF p.current_age < p.retirement_age THEN p.employment_income ELSE 0)
        sp == IF HasSpouse
              THEN Get(p.spouse).social_security_monthly * 12
                   + Get(p.spouse).pension_annual
                   + (IF Get(p.spouse).age < Get(p.spouse).retirement_age
                      THEN Get(p.spouse).employment_income ELSE 0)
              ELSE 0
        an == IF HasAnnuity THEN Get(p.annuity).monthly_payment * 12 ELSE 0
        guaranteed_income == R(own + sp + an)
        initial_net_need == RMax(RZero, RSub(annual_spending, guaranteed_income))
    IN  IF p.initial_capital > 0
        THEN RMul(RDiv(initial_net_need, R(p.initial_capital)), R(100))
        ELSE RZero

\* {"type": "progress", "year": y, "total_years": n_years} and
\* {"type": "complete", "result": res}; a field an event lacks is -1 or None.
ProgressEvent(y) ==
    [type |-> "progress", year |-> y, total_years |-> n_years, result |-> None]
\* (MutCompleteEventRecomputed carries a result whose success rate was not
\* taken from the run's)
MutCompleteEventRecomputed(res) ==
    [type |-> "complete", year |-> -1, total_years |-> -1,
     result |-> Some([res EXCEPT !.success_rate = RZero])]
CompleteEvent(res) ==
    [type |-> "complete", year |-> -1, total_years |-> -1, result |-> Some(res)]

\* ---- one year y of the loop, path i ----
current_age(y) == p.current_age + y
current_value(y, i) == paths[i][y]

active(y, i) == RLt(RZero, current_value(y, i)) /\ either_alive[i][y]

employment(y) ==
    IF p.employment_income > 0 /\ current_age(y) < p.retirement_age
    THEN LET years_worked == Min(y, p.retirement_age - p.current_age)
         IN  RMul(R(p.employment_income),
                  RPow(RAdd(ROne, p.employment_growth_rate), years_worked))
    ELSE RZero

social_security(y) ==
    IF current_age(y) >= p.social_security_start_age
    THEN R(p.social_security_monthly * 12) ELSE RZero

pension == R(p.pension_annual)

\* The spouse's income is counted only when a spouse mask was generated.
SpouseCounted == HasSpouse /\ spouse_alive # None
spouse_current_age(y) == Get(p.spouse).age + y
spouse_dead(y, i) == ~Get(spouse_alive)[i][y]

spouse_employment(y, i) ==
    IF SpouseCounted /\ ~spouse_dead(y, i)
       /\ Get(p.spouse).employment_income > 0
       /\ spouse_current_age(y) < Get(p.spouse).retirement_age
    THEN LET years_worked == Min(y, Get(p.spouse).retirement_age - Get(p.spouse).age)
         IN  RMul(R(Get(p.spouse).employment_income),
                  RPow(RAdd(ROne, Get(p.spouse).employment_growth_rate), years_worked))
    ELSE RZero

spouse_ss(y, i) ==
    IF SpouseCounted /\ ~spouse_dead(y, i)
       /\ spouse_current_age(y) >= Get(p.spouse).social_security_start_age
    THEN R(Get(p.spouse).social_security_monthly * 12) ELSE RZero

spouse_pension(y, i) ==
    IF SpouseCounted /\ ~spouse_dead(y, i)
    THEN R(Get(p.spouse).pension_annual) ELSE RZero

MutAnnuityIncomeWhileEitherAlive(y, i) ==
    IF ~HasAnnuity THEN RZero
    ELSE LET a == Get(p.annuity)
             payment == R(a.monthly_payment * 12)
         IN  IF a.annuity_type = "fixed_period"
             THEN (IF y < a.guarantee_years THEN payment ELSE RZero)
             ELSE IF a.annuity_type = "life_with_guarantee" /\ y < a.guarantee_years
             THEN payment
             ELSE (IF either_alive[i][y] THEN payment ELSE RZero)
annuity_income(y, i) ==
    IF ~HasAnnuity THEN RZero
    ELSE LET a == Get(p.annuity)
             payment == R(a.monthly_payment * 12)
         IN  IF a.annuity_type = "fixed_period"
             THEN (IF y < a.guarantee_years THEN payment ELSE RZero)
             ELSE IF a.annuity_type = "life_with_guarantee"
             THEN (IF y >= a.guarantee_years
                   THEN (IF primary_alive[i][y] THEN payment ELSE RZero)
                   ELSE payment)
             ELSE (IF primary_alive[i][y] THEN payment ELSE RZero)

total_guaranteed(y, i) ==
    RAdd(RAdd(RAdd(employment(y), social_security(y)), pension),
         RAdd(RAdd(RAdd(spouse_employment(y, i), spouse_ss(y, i)), spouse_pension(y, i)),
              annuity_income(y, i)))

net_need(y, i) == RMax(RZero, RSub(annual_spending, total_guaranteed(y, i)))

dividends(y, i) == RMul(current_value(y, i), p.dividend_yield)

\* The arguments of self.tax_calc.calculate_batch_taxes(...) in year y.
TaxCall(y) ==
    [capital_gains_array |-> [i \in Sims |-> net_need(y, i)],
     social_security_array |->
        [i \in Sims |-> RAdd(social_security(y), spouse_ss(y, i))],
     ages |-> [i \in Sims |-> current_age(y)],
     dividend_income_array |-> [i \in Sims |-> dividends(y, i)],
     employment_income_array |->
        [i \in Sims |-> RAdd(employment(y), spouse_employment(y, i))]]

\* tax_results["total_tax"], the answer of tax service s for path i
TaxAnswer(s, y, i) ==
    LET refund == R(-20)
        bill == R(50)
        threshold == R(10)
    IN  CASE s = "refund" -> refund
          [] s = "bill" -> bill
          [] OTHER -> IF RLe(threshold, dividends(y, i)) THEN bill ELSE refund

\* np.maximum(0, tax_results["total_tax"])
estimated_taxes(tax, i) == RMax(RZero, tax[i])

gross_withdrawal(tax, y, i) == RAdd(net_need(y, i), estimated_taxes(tax, i))

growth(ret, y, i) == RMul(current_value(y, i), ret[i])

new_value(ret, tax, y, i) ==
    RSub(RAdd(RAdd(current_value(y, i), growth(ret, y, i)), dividends(y, i)),
         gross_withdrawal(tax, y, i))

depleted(ret, tax, y, i) ==
    RLt(RZero, current_value(y, i)) /\ RLe(new_value(ret, tax, y, i), RZero)

\* failure_year[depleted & (failure_year > year)] = year + 1
MutDepletedMaskAnyNonPositive(ret, tax, y, i) == RLe(new_value(ret, tax, y, i), RZero)
depleted_mask(ret, tax, y, i) == depleted(ret, tax, y, i) /\ failure_year[i] > y

\* paths[:, year + 1] = np.maximum(0, new_value)
MutClampedValueUnclamped(ret, tax, y, i) == new_value(ret, tax, y, i)
clamped_value(ret, tax, y, i) == RMax(RZero, new_value(ret, tax, y, i))

\* ---- aggregation after the loop ----
RECURSIVE SortedVals(_, _)
SortedVals(f, S) ==
    IF S = {} THEN <<>>
    ELSE LET m == CHOOSE x \in S : \A y \in S : RLe(f[x], f[y])
         IN  <<f[m]>> \o SortedVals(f, S \ {m})

\* np.percentile(values, q), linear interpolation between the two neighbours
Percentile(f, S, q) ==
    LET srt == SortedVals(f, S)
        n == Len(srt)
        h == Norm((n - 1) * q, 100)
        lo == h[1] \div h[2]
        frac == RSub(h, R(lo))
    IN  IF lo + 1 >= n THEN srt[n]
        ELSE RAdd(srt[lo + 1], RMul(frac, RSub(srt[lo + 2], srt[lo + 1])))

Median(f, S) == Percentile(f, S, 50)

Mean(f, S) == RDiv(RSum(f, S), R(Cardinality(S)))

PercentileNames == {5, 25, 50, 75, 95}
TEN_YEARS == 10

\* success_mask: never depleted, or (with mortality) not alive in the last year
success_mask(i) ==
    IF p.include_mortality
    THEN failure_year[i] > n_years \/ ~either_alive[i][n_years]
    ELSE failure_year[i] > n_years

Indicator(b) == IF b THEN ROne ELSE RZero

SimulationResult ==
    LET final_values == [i \in Sims |-> paths[i][n_years]]
        depleted_sims == {i \in Sims : failure_year[i] <= n_years}
        fy == [i \in Sims |-> R(failure_year[i])]
        med == Median(fy, depleted_sims)
    IN  [success_rate |-> Mean([i \in Sims |-> Indicator(success_mask(i))], Sims),
         median_final_value |-> Median(final_values, Sims),
         mean_final_value |-> Mean(final_values, Sims),
         percentiles |-> [q \in PercentileNames |-> Percentile(final_values, Sims, q)],
         median_depletion_age |->
             IF depleted_sims # {}
             THEN Some((p.current_age * med[2] + med[1]) \div med[2]) ELSE None,
         median_depletion_year |-> IF depleted_sims # {} THEN Some(med) ELSE None,
         total_withdrawn_median |-> Median(total_withdrawn, Sims),
         total_taxes_median |-> Median(total_taxes, Sims),
         percentile_paths |->
             [q \in PercentileNames |->
                 [t \in Years |-> Percentile([i \in Sims |-> paths[i][t]], Sims, q)]],
         initial_withdrawal_rate |-> initial_withdrawal_rate,
         prob_10_year_failure |->
             Mean([i \in Sims |-> Indicator(failure_year[i] <= TEN_YEARS)], Sims)]

\* ---- the simulator's steps ----
Yield(ev) == IF mode = "run_with_progress" THEN Append(events, ev) ELSE events

\* The skipped year still reports progress (run has nothing to report).
MutYieldSkippedNothing(y) == events
YieldSkipped(y) == Yield(ProgressEvent(y))

InitSim ==
    /\ p \in SimulationInputs
    /\ mode \in {"run", "run_with_progress"}
    /\ pc = "new"
    /\ year = 0
    /\ paths = <<>>
    /\ failure_year = <<>>
    /\ total_withdrawn = <<>>
    /\ total_taxes = <<>>
    /\ either_alive = <<>>
    /\ primary_alive = <<>>
    /\ spouse_alive = None
    /\ initial_withdrawal_rate = RZero
    /\ events = <<>>
    /\ result = None
    /\ tax_failed = FALSE
    /\ run_no = 1
    /\ first_result = None
    /\ tax_call = None

\* run / run_with_progress up to the loop: the arrays, the alive masks drawn
\* from self._rng, the initial withdrawal rate, the first progress event.
Begin ==
    /\ pc = "new"
    /\ paths' = [i \in Sims |-> [t \in Years |->
                    IF t = 0 THEN R(p.initial_capital) ELSE RZero]]
    /\ total_withdrawn' = [i \in Sims |-> RZero]
    /\ total_taxes' = [i \in Sims |-> RZero]
    /\ failure_year' = [i \in Sims |-> n_years + 1]
    /\ IF p.include_mortality
       THEN IF HasSpouse
            THEN \E pa \in AliveMasks, sa \in AliveMasks :
                    /\ primary_alive' = pa
                    /\ spouse_alive' = Some(sa)
                    /\ either_alive' = EitherAlive(pa, sa)
            ELSE \E ea \in AliveMasks :
                    /\ either_alive' = ea
                    /\ primary_alive' = ea
                    /\ spouse_alive' = None
       ELSE /\ either_alive' = AllAlive
            /\ primary_alive' = AllAlive
            /\ spouse_alive' = None
    /\ initial_withdrawal_rate' = InitialWithdrawalRate
    /\ events' = Yield(ProgressEvent(0))
    /\ year' = 0
    /\ pc' = "loop"
    /\ UNCHANGED <<apiVars, retVars, rmdVars, holdVars, p, mode, result, tax_failed, run_no, first_result,
                   tax_call>>

\* A year in which no path is active: the body is skipped.
SkipYear ==
    /\ pc = "loop"
    /\ year < n_years
    /\ ~\E i \in Sims : active(year, i)
    /\ events' = YieldSkipped(year + 1)
    /\ year' = year + 1
    /\ UNCHANGED <<apiVars, retVars, rmdVars, holdVars, p, mode, pc, paths, failure_year, total_withdrawn, total_taxes,
                   either_alive, primary_alive, spouse_alive,
                   initial_withdrawal_rate, result, tax_failed, run_no, first_result,
                   tax_call>>

\* The body of a year with annual_returns[:, year] = ret and the tax service
\* answering total_tax = tax.
YearBody(ret, tax) ==
    /\ tax_call' = Some(TaxCall(year))
    /\ failure_year' = [i \in Sims |->
            IF depleted_mask(ret, tax, year, i) THEN year + 1 ELSE failure_year[i]]
    /\ paths' = [i \in Sims |->
            [paths[i] EXCEPT ![year + 1] = clamped_value(ret, tax, year, i)]]
    /\ total_withdrawn' = [i \in Sims |->
            IF active(year, i)
            THEN RAdd(total_withdrawn[i], gross_withdrawal(tax, year, i))
            ELSE total_withdrawn[i]]
    /\ total_taxes' = [i \in Sims |->
            IF active(year, i) THEN RAdd(total_taxes[i], estimated_taxes(tax, i))
            ELSE total_taxes[i]]
    /\ events' = Yield(ProgressEvent(year + 1))
    /\ year' = year + 1

\* A year with an active path.
StepYear ==
    /\ pc = "loop"
    /\ year < n_years
    /\ \E i \in Sims : active(year, i)
    /\ \E ret \in [Sims -> Returns], s \in TaxSchedules :
            YearBody(ret, [i \in Sims |-> TaxAnswer(s, year, i)])
    /\ UNCHANGED <<apiVars, retVars, rmdVars, holdVars, p, mode, pc, either_alive, primary_alive,
                   spouse_alive, initial_withdrawal_rate, result, tax_failed,
                   run_no, first_result>>

\* A simulator that answers a failure of the tax service with an estimate
\* (15% of the gains, 5% of Social Security) and goes on.
MutTaxServiceFallback ==
    /\ pc = "loop"
    /\ year < n_years
    /\ \E i \in Sims : active(year, i)
    /\ tax_failed' = TRUE
    /\ \E ret \in [Sims -> Returns] :
            YearBody(ret, [i \in Sims |->
                RAdd(RMul(net_need(year, i), <<3, 20>>),
                     RMul(social_security(year), <<1, 20>>))])
    /\ UNCHANGED <<apiVars, retVars, rmdVars, holdVars, p, mode, pc, either_alive, primary_alive,
                   spouse_alive, initial_withdrawal_rate, result, run_no, first_result>>

\* A year with an active path in which calculate_batch_taxes raises: nothing in
\* the loop catches it, so run raises and the generator ends.
TaxServiceRaises ==
    /\ pc = "loop"
    /\ year < n_years
    /\ \E i \in Sims : active(year, i)
    /\ tax_failed' = TRUE
    /\ tax_call' = Some(TaxCall(year))
    /\ pc' = "raised"
    /\ UNCHANGED <<apiVars, retVars, rmdVars, holdVars, p, mode, year, paths, failure_year,
                   total_withdrawn, total_taxes, either_alive, primary_alive,
                   spouse_alive, initial_withdrawal_rate, events, result, run_no,
                   first_result>>

\* After the last year: the result is built and returned (run) or yielded in
\* the complete event (run_with_progress).
Finish ==
    /\ pc = "loop"
    /\ year = n_years
    /\ result' = Some(SimulationResult)
    /\ events' = Yield(CompleteEvent(SimulationResult))
    /\ pc' = "done"
    /\ UNCHANGED <<apiVars, retVars, rmdVars, holdVars, p, mode, year, paths, failure_year, total_withdrawn, total_taxes,
                   either_alive, primary_alive, spouse_alive,
                   initial_withdrawal_rate, tax_failed, run_no, first_result, tax_call>>

IdleRmd == rmd_balance = RZero /\ rmd_age = 0 /\ rmd_call = "none" /\ rmd_result = None
IdleHoldings ==
    /\ holdings = <<>>
    /\ withdrawal_strategy = "taxable_first"
    /\ h_call = "none"
    /\ h_before = <<>>
    /\ h_amount = <<>>
    /\ h_age = 0
    /\ h_result = None
    /\ h_calls = 0

IdleReturns ==
    /\ ret_args = None /\ ret_outcome = "none" /\ ret_value = None
    /\ rng_draws = 0 /\ ret_trace = None

\* Neither compare_to_annuity nor the finsim simulator has been called.
IdleApi ==
    /\ cmp_args = None /\ cmp_value = None
    /\ fin_params = None /\ fin_outcome = "none"

Init == InitSim /\ IdleRmd /\ IdleHoldings /\ IdleReturns /\ IdleApi

Next == Begin \/ SkipYear \/ StepYear \/ TaxServiceRaises \/ Finish

Spec == Init /\ [][Next]_vars

-----------------------------------------------------------------------------
(* Running the simulation a second time: a new MonteCarloSimulator on the   *)
(* same SimulationInput.  __init__ takes no seed and builds its generator   *)
(* with np.random.default_rng(), so the second run draws afresh.            *)

RunAgain ==
    /\ pc = "done"
    /\ run_no = 1
    /\ first_result' = result
    /\ run_no' = 2
    /\ pc' = "new"
    /\ year' = 0
    /\ paths' = <<>>
    /\ failure_year' = <<>>
    /\ total_withdrawn' = <<>>
    /\ total_taxes' = <<>>
    /\ either_alive' = <<>>
    /\ primary_alive' = <<>>
    /\ spouse_alive' = None
    /\ initial_withdrawal_rate' = RZero
    /\ events' = <<>>
    /\ result' = None
    /\ tax_failed' = FALSE
    /\ tax_call' = None
    /\ UNCHANGED <<apiVars, retVars, rmdVars, holdVars, p, mode>>

InitTwice == Init /\ p = BaseInput

NextTwice == Begin \/ SkipYear \/ StepYear \/ TaxServiceRaises \/ Finish \/ RunAgain

SpecTwice == InitTwice /\ [][NextTwice]_vars

-----------------------------------------------------------------------------
(* Calling rmd.calculate_rmd or rmd.get_rmd_factor once.                   *)

AgeMargin == 4

\* The simulator, constructed and left alone.
IdleSim == InitSim /\ p = BaseInput /\ mode = "run"

InitRmd ==
    /\ rmd_balance \in {R(-100), RZero, <<1, 2>>, R(265), R(500000)}
    /\ rmd_age \in (RMD_START_AGE - AgeMargin)..(TABLE_MAX_AGE + AgeMargin)
    /\ rmd_call = "none"
    /\ rmd_result = None
    /\ IdleHoldings
    /\ IdleSim
    /\ IdleReturns
    /\ IdleApi

CallCalculateRmd ==
    /\ rmd_call = "none"
    /\ rmd_call' = "calculate_rmd"
    /\ rmd_result' = Some(calculate_rmd(rmd_balance, rmd_age))
    /\ UNCHANGED <<rmd_balance, rmd_age, holdVars, simVars, retVars, apiVars>>

CallGetRmdFactor ==
    /\ rmd_call = "none"
    /\ rmd_call' = "get_rmd_factor"
    /\ rmd_result' = Some(get_rmd_factor(rmd_age))
    /\ UNCHANGED <<rmd_balance, rmd_age, holdVars, simVars, retVars, apiVars>>

NextRmd == CallCalculateRmd \/ CallGetRmdFactor

SpecRmd == InitRmd /\ [][NextRmd]_vars

-----------------------------------------------------------------------------
(* eggnest/holdings.py: HoldingsTracker                                    *)

TRADITIONAL_ACCOUNTS == {"traditional_401k", "traditional_ira"}
ROTH_ACCOUNTS == {"roth_401k", "roth_ira"}
TAXABLE_ACCOUNTS == {"taxable"}

MutWithdrawalOrderTraditionalLeads ==
    [taxable_first |-> <<TRADITIONAL_ACCOUNTS, TAXABLE_ACCOUNTS, ROTH_ACCOUNTS>>,
     traditional_first |-> <<TRADITIONAL_ACCOUNTS, TAXABLE_ACCOUNTS, ROTH_ACCOUNTS>>,
     roth_first |-> <<ROTH_ACCOUNTS, TAXABLE_ACCOUNTS, TRADITIONAL_ACCOUNTS>>]
WITHDRAWAL_ORDER ==
    [taxable_first |-> <<TAXABLE_ACCOUNTS, TRADITIONAL_ACCOUNTS, ROTH_ACCOUNTS>>,
     traditional_first |-> <<TRADITIONAL_ACCOUNTS, TAXABLE_ACCOUNTS, ROTH_ACCOUNTS>>,
     roth_first |-> <<ROTH_ACCOUNTS, TAXABLE_ACCOUNTS, TRADITIONAL_ACCOUNTS>>]

\* The categories of the pro_rata loop, in the order the code visits them.
PRO_RATA_ORDER == <<TAXABLE_ACCOUNTS, TRADITIONAL_ACCOUNTS, ROTH_ACCOUNTS>>


\* The tracker is built with n_simulations = NSims.
TrackerSims == 1..NSims

Funds == {"vt", "bnd"}

\* models.Holding
\* The holdings lists the tracker is built from.
Portfolios ==
    { << Holding("traditional_401k", "vt", R(53)),
         Holding("traditional_ira", "bnd", R(53)),
         Holding("taxable", "vt", R(12)),
         Holding("roth_ira", "vt", R(6)) >>,
      << Holding("taxable", "vt", R(12)),
         Holding("taxable", "bnd", R(4)),
         Holding("roth_401k", "bnd", R(8)) >>,
      << Holding("traditional_ira", "bnd", RZero),
         Holding("roth_ira", "vt", R(4)) >> }

\* HoldingsTracker.__init__: one HoldingState per holding, the balance
\* np.full(n_simulations, h.balance).
TrackerInit(hs) ==
    [k \in DOMAIN hs |->
        [account_type |-> hs[k].account_type,
         fund |-> hs[k].fund,
         balance |-> [i \in TrackerSims |-> hs[k].balance]]]

Zeros == [i \in TrackerSims |-> RZero]

get_balance_by_account_category(hs, category) ==
    LET cat == {k \in DOMAIN hs : hs[k].account_type \in category}
    IN  [i \in TrackerSims |-> RSum([k \in cat |-> hs[k].balance[i]], cat)]

traditional_balance(hs) == get_balance_by_account_category(hs, TRADITIONAL_ACCOUNTS)
roth_balance(hs) == get_balance_by_account_category(hs, ROTH_ACCOUNTS)
taxable_balance(hs) == get_balance_by_account_category(hs, TAXABLE_ACCOUNTS)

total_balance(hs) ==
    [i \in TrackerSims |-> RSum([k \in DOMAIN hs |-> hs[k].balance[i]], DOMAIN hs)]

\* One column of a fund's pre-generated price_growth and div_yields matrices.
PriceGrowthRates(fund) == IF fund = "vt" THEN {<<-1, 2>>, <<1, 2>>} ELSE {<<1, 4>>}
DivYield(fund) == IF fund = "vt" THEN <<1, 64>> ELSE <<1, 32>>
PriceGrowthColumns ==
    {g \in [Funds -> [TrackerSims -> UNION {PriceGrowthRates(f) : f \in Funds}]] :
        \A f \in Funds : \A i \in TrackerSims : g[f][i] \in PriceGrowthRates(f)}

\* apply_growth(year), g the year's column of each fund's price_growth
\* (MutApplyGrowthKeepsGrowthOnly stores the growth in place of the balance)
MutApplyGrowthKeepsGrowthOnly(hs, g) ==
    [k \in DOMAIN hs |->
        [hs[k] EXCEPT !.balance =
            [i \in TrackerSims |-> RMul(hs[k].balance[i], g[hs[k].fund][i])]]]
apply_growth(hs, g) ==
    [k \in DOMAIN hs |->
        [hs[k] EXCEPT !.balance =
            [i \in TrackerSims |->
                RAdd(hs[k].balance[i], RMul(hs[k].balance[i], g[hs[k].fund][i]))]]]

\* get_dividends(year)
CategoryDividends(hs, ks) ==
    [i \in TrackerSims |->
        RSum([k \in ks |-> RMul(hs[k].balance[i], DivYield(hs[k].fund))], ks)]
get_dividends(hs) ==
    LET trad == {k \in DOMAIN hs : hs[k].account_type \in TRADITIONAL_ACCOUNTS}
        roth == {k \in DOMAIN hs : hs[k].account_type \in ROTH_ACCOUNTS}
    IN  [traditional |-> CategoryDividends(hs, trad),
         roth |-> CategoryDividends(hs, roth),
         taxable |-> CategoryDividends(hs, (DOMAIN hs \ trad) \ roth)]

\* HoldingsTracker.calculate_rmd(age)
MutTrackerRmdNever(hs, age) == Zeros
tracker_calculate_rmd(hs, age) ==
    IF age >= 73
    THEN [i \in TrackerSims |-> calculate_rmd(traditional_balance(hs)[i], age)]
    ELSE Zeros

\* _withdraw_from_category(category, amount): pro rata within the category,
\* every balance clamped at 0; no holding in the category, nothing happens.
MutWithdrawFromCategoryEvenSplit(hs, category, amount) ==
    LET cat_holdings == {k \in DOMAIN hs : hs[k].account_type \in category}
    IN  [k \in DOMAIN hs |->
            IF k \in cat_holdings
            THEN [hs[k] EXCEPT !.balance =
                    [i \in TrackerSims |->
                        RMax(RZero, RSub(hs[k].balance[i],
                                         RDiv(amount[i], R(Cardinality(cat_holdings)))))]]
            ELSE hs[k]]
withdraw_from_category(hs, category, amount) ==
    LET cat_holdings == {k \in DOMAIN hs : hs[k].account_type \in category}
        cat_total == [i \in TrackerSims |->
                         RSum([k \in cat_holdings |-> hs[k].balance[i]], cat_holdings)]
        proportion(k, i) == IF RLt(RZero, cat_total[i])
                            THEN RDiv(hs[k].balance[i], cat_total[i])
                            ELSE RZero
    IN  [k \in DOMAIN hs |->
            IF k \in cat_holdings
            THEN [hs[k] EXCEPT !.balance =
                    [i \in TrackerSims |->
                        RMax(RZero, RSub(hs[k].balance[i],
                                         RMul(amount[i], proportion(k, i))))]]
            ELSE hs[k]]

CategoryKey(category) ==
    IF category = TAXABLE_ACCOUNTS THEN "taxable"
    ELSE IF category = TRADITIONAL_ACCOUNTS THEN "traditional"
    ELSE "roth"

\* The body of both category loops: s is the tracker's holdings, the
\* remaining need and the result dict so far; withdrawal is this category's.
MutTakeFromCategoryKeepsNeed(s, category, withdrawal) ==
    [hs |-> withdraw_from_category(s.hs, category, withdrawal),
     remaining |-> s.remaining,
     result |-> [s.result EXCEPT ![CategoryKey(category)] =
                    [i \in TrackerSims |-> RAdd(@[i], withdrawal[i])]]]
TakeFromCategory(s, category, withdrawal) ==
    [hs |-> withdraw_from_category(s.hs, category, withdrawal),
     remaining |-> [i \in TrackerSims |->
                       RMax(RZero, RSub(s.remaining[i], withdrawal[i]))],
     result |-> [s.result EXCEPT ![CategoryKey(category)] =
                    [i \in TrackerSims |-> RAdd(@[i], withdrawal[i])]]]

\* pro_rata: the category's share of total_bal, taken of what remains now
ProRataStep(s, category, total_bal) ==
    LET cat_balance == get_balance_by_account_category(s.hs, category)
        proportion == [i \in TrackerSims |->
                          IF RLt(RZero, total_bal[i])
                          THEN RDiv(cat_balance[i], total_bal[i])
                          ELSE RZero]
        withdrawal == [i \in TrackerSims |->
                          RMin(RMul(s.remaining[i], proportion[i]), cat_balance[i])]
    IN  TakeFromCategory(s, category, withdrawal)

\* the ordered strategies: as much of what remains as the category holds
\* (MutOrderedStepUncapped forgets the cap)
MutOrderedStepUncapped(s, category) ==
    TakeFromCategory(s, category, s.remaining)
OrderedStep(s, category) ==
    LET cat_balance == get_balance_by_account_category(s.hs, category)
        withdrawal == [i \in TrackerSims |-> RMin(s.remaining[i], cat_balance[i])]
    IN  TakeFromCategory(s, category, withdrawal)

RECURSIVE ProRataLoop(_, _, _)
ProRataLoop(s, total_bal, n) ==
    IF n = 0 THEN s
    ELSE ProRataStep(ProRataLoop(s, total_bal, n - 1), PRO_RATA_ORDER[n], total_bal)

RECURSIVE OrderedLoop(_, _, _)
OrderedLoop(s, order, n) ==
    IF n = 0 THEN s
    ELSE OrderedStep(OrderedLoop(s, order, n - 1), order[n])

\* HoldingsTracker.withdraw(amount, age): the holdings after the call and
\* the dict it returns.
withdraw(hs, strategy, amount, age) ==
    LET rmd == tracker_calculate_rmd(hs, age)
        rmd_withdrawal == [i \in TrackerSims |->
                              RMin(rmd[i], traditional_balance(hs)[i])]
        afterRmd ==
            [hs |-> withdraw_from_category(hs, TRADITIONAL_ACCOUNTS, rmd_withdrawal),
             remaining |-> [i \in TrackerSims |->
                               RMax(RZero, RSub(amount[i], rmd_withdrawal[i]))],
             result |-> [traditional_rmd |-> rmd_withdrawal,
                         traditional |-> Zeros,
                         roth |-> Zeros,
                         taxable |-> Zeros,
                         total |-> Zeros]]
        order == IF strategy \in DOMAIN WITHDRAWAL_ORDER
                 THEN WITHDRAWAL_ORDER[strategy]
                 ELSE WITHDRAWAL_ORDER["taxable_first"]
        final == IF strategy = "pro_rata"
                 THEN ProRataLoop(afterRmd, total_balance(afterRmd.hs),
                                  Len(PRO_RATA_ORDER))
                 ELSE OrderedLoop(afterRmd, order, Len(order))
    IN  [hs |-> final.hs,
         result |-> [final.result EXCEPT !.total =
                        [i \in TrackerSims |-> RSub(amount[i], final.remaining[i])]]]

\* ---- the tracker's callers ----
MaxCalls == 2
AmountList == <<0, 2, 8, 20, 400>>
\* Amount vectors: path i asks for the (k+i)-th amount of the list.
AmountVectors ==
    {[i \in TrackerSims |-> R(AmountList[((k + i) % Len(AmountList)) + 1])] :
        k \in 1..Len(AmountList)}

\* Calls are made on whole balances with a whole RMD, which keeps the exact
\* arithmetic of a call within the range of the integers.
WholeCall(hs, age) ==
    /\ \A k \in DOMAIN hs : \A i \in TrackerSims : hs[k].balance[i][2] = 1
    /\ \A i \in TrackerSims : tracker_calculate_rmd(hs, age)[i][2] = 1

InitHoldings ==
    /\ \E hs \in Portfolios : holdings = TrackerInit(hs)
    /\ withdrawal_strategy \in {"taxable_first", "traditional_first", "roth_first", "pro_rata"}
    /\ h_call = "none"
    /\ h_before = <<>>
    /\ h_amount = <<>>
    /\ h_age = 0
    /\ h_result = None
    /\ h_calls = 0
    /\ IdleRmd
    /\ IdleSim
    /\ IdleReturns
    /\ IdleApi

Withdraw ==
    /\ h_calls < MaxCalls
    /\ \E amount \in AmountVectors : \E age \in {RMD_START_AGE - 1, RMD_START_AGE, TABLE_MAX_AGE} :
         LET w == withdraw(holdings, withdrawal_strategy, amount, age)
         IN  /\ WholeCall(holdings, age)
             /\ holdings' = w.hs
             /\ h_result' = w.result
             /\ h_amount' = amount
             /\ h_age' = age
    /\ h_call' = "withdraw"
    /\ h_before' = holdings
    /\ h_calls' = h_calls + 1
    /\ UNCHANGED <<withdrawal_strategy, rmdVars, simVars, retVars, apiVars>>

\* apply_growth on the next year's column, drawn when the call is made.
ApplyGrowth ==
    /\ h_calls < MaxCalls
    /\ \E g \in PriceGrowthColumns : holdings' = apply_growth(holdings, g)
    /\ h_call' = "apply_growth"
    /\ h_before' = holdings
    /\ h_result' = None
    /\ h_calls' = h_calls + 1
    /\ UNCHANGED <<withdrawal_strategy, h_amount, h_age, rmdVars, simVars, retVars, apiVars>>

GetDividends ==
    /\ h_call' = "get_dividends"
    /\ h_before' = holdings
    /\ h_result' = get_dividends(holdings)
    /\ UNCHANGED <<holdings, withdrawal_strategy, h_amount, h_age, h_calls,
                   rmdVars, simVars, retVars, apiVars>>

NextHoldings == Withdraw \/ ApplyGrowth \/ GetDividends

SpecHoldings == InitHoldings /\ [][NextHoldings]_vars

-----------------------------------------------------------------------------
(* returns.generate_blended_returns: one call.  An entry of a historical    *)
(* series is <<year, return>>: the year is the key of the dict the array   *)
(* is built from, the return is kept in ten-thousandths (0.3788 is 3788).  *)

\* np.array(list(HISTORICAL_REAL_RETURNS.values())), 1928-2024
RETURNS_ARRAY ==
    << <<1928, 3788>>, <<1929, -1466>>, <<1930, -2590>>, <<1931, -3812>>, <<1932, -1221>>,
       <<1933, 4698>>, <<1934, 203>>, <<1935, 4391>>, <<1936, 3172>>, <<1937, -3534>>,
       <<1938, 2541>>, <<1939, 341>>, <<1940, -1524>>, <<1941, -1963>>, <<1942, 1080>>,
       <<1943, 2282>>, <<1944, 1680>>, <<1945, 3445>>, <<1946, -2610>>, <<1947, -455>>,
       <<1948, -177>>, <<1949, 1888>>, <<1950, 2416>>, <<1951, 1334>>, <<1952, 1181>>,
       <<1953, 53>>, <<1954, 5256>>, <<1955, 2618>>, <<1956, 376>>, <<1957, -1392>>,
       <<1958, 4161>>, <<1959, 892>>, <<1960, 148>>, <<1961, 2563>>, <<1962, -1010>>,
       <<1963, 2046>>, <<1964, 1502>>, <<1965, 1024>>, <<1966, -1309>>, <<1967, 2009>>,
       <<1968, 611>>, <<1969, -1411>>, <<1970, -112>>, <<1971, 984>>, <<1972, 1537>>,
       <<1973, -2359>>, <<1974, -3649>>, <<1975, 2831>>, <<1976, 1881>>, <<1977, -1167>>,
       <<1978, -175>>, <<1979, 539>>, <<1980, 1867>>, <<1981, -1437>>, <<1982, 1476>>,
       <<1983, 1899>>, <<1984, 181>>, <<1985, 2633>>, <<1986, 1462>>, <<1987, 203>>,
       <<1988, 1194>>, <<1989, 2689>>, <<1990, -921>>, <<1991, 2631>>, <<1992, 450>>,
       <<1993, 726>>, <<1994, -154>>, <<1995, 3417>>, <<1996, 1932>>, <<1997, 3101>>,
       <<1998, 2667>>, <<1999, 1853>>, <<2000, -1214>>, <<2001, -1311>>, <<2002, -2336>>,
       <<2003, 2638>>, <<2004, 769>>, <<2005, 149>>, <<2006, 1324>>, <<2007, 141>>,
       <<2008, -3849>>, <<2009, 2345>>, <<2010, 1278>>, <<2011, -124>>, <<2012, 1426>>,
       <<2013, 3017>>, <<2014, 1139>>, <<2015, -73>>, <<2016, 954>>, <<2017, 1942>>,
       <<2018, -624>>, <<2019, 2880>>, <<2020, 1612>>, <<2021, 2147>>, <<2022, -2512>>,
       <<2023, 2256>>, <<2024, 2310>> >>

\* np.array(list(HISTORICAL_BOND_RETURNS.values())), 1928-2024
BOND_RETURNS_ARRAY ==
    << <<1928, 201>>, <<1929, 360>>, <<1930, 1168>>, <<1931, 745>>, <<1932, 2125>>,
       <<1933, 108>>, <<1934, 635>>, <<1935, 144>>, <<1936, 352>>, <<1937, -144>>,
       <<1938, 719>>, <<1939, 441>>, <<1940, 465>>, <<1941, -1087>>, <<1942, -618>>,
       <<1943, -46>>, <<1944, 27>>, <<1945, 152>>, <<1946, -1270>>, <<1947, -727>>,
       <<1948, -101>>, <<1949, 688>>, <<1950, -519>>, <<1951, -594>>, <<1952, 150>>,
       <<1953, 337>>, <<1954, 406>>, <<1955, -170>>, <<1956, -509>>, <<1957, 379>>,
       <<1958, -379>>, <<1959, -430>>, <<1960, 1014>>, <<1961, 138>>, <<1962, 430>>,
       <<1963, 4>>, <<1964, 273>>, <<1965, -118>>, <<1966, -53>>, <<1967, -448>>,
       <<1968, -138>>, <<1969, -1056>>, <<1970, 1059>>, <<1971, 631>>, <<1972, -57>>,
       <<1973, -464>>, <<1974, -921>>, <<1975, -312>>, <<1976, 1060>>, <<1977, -507>>,
       <<1978, -899>>, <<1979, -1114>>, <<1980, -1378>>, <<1981, -66>>, <<1982, 2792>>,
       <<1983, -57>>, <<1984, 941>>, <<1985, 2111>>, <<1986, 2293>>, <<1987, -900>>,
       <<1988, 364>>, <<1989, 1247>>, <<1990, 12>>, <<1991, 1159>>, <<1992, 628>>,
       <<1993, 1116>>, <<1994, -1043>>, <<1995, 2042>>, <<1996, -183>>, <<1997, 810>>,
       <<1998, 1310>>, <<1999, -1065>>, <<2000, 1283>>, <<2001, 396>>, <<2002, 1244>>,
       <<2003, -148>>, <<2004, 120>>, <<2005, -53>>, <<2006, -57>>, <<2007, 589>>,
       <<2008, 1999>>, <<2009, -1347>>, <<2010, 686>>, <<2011, 1270>>, <<2012, 121>>,
       <<2013, -1045>>, <<2014, 991>>, <<2015, 55>>, <<2016, -136>>, <<2017, 68>>,
       <<2018, -189>>, <<2019, 719>>, <<2020, 984>>, <<2021, -1070>>, <<2022, -2281>>,
       <<2023, 51>>, <<2024, -427>> >>

\* np.array(list(VT_REAL_RETURNS.values())), 2008-2024
VT_RETURNS_ARRAY ==
    << <<2008, -4440>>, <<2009, 3318>>, <<2010, 1130>>, <<2011, -1038>>, <<2012, 1471>>,
       <<2013, 2113>>, <<2014, 204>>, <<2015, -196>>, <<2016, 711>>, <<2017, 2192>>,
       <<2018, -1186>>, <<2019, 2458>>, <<2020, 1523>>, <<2021, 1296>>, <<2022, -2408>>,
       <<2023, 1723>>, <<2024, 1320>> >>

\* np.array(list(BND_REAL_RETURNS.values())), 2007-2024
BND_RETURNS_ARRAY ==
    << <<2007, 408>>, <<2008, 295>>, <<2009, 405>>, <<2010, 453>>, <<2011, 457>>,
       <<2012, 175>>, <<2013, -355>>, <<2014, 415>>, <<2015, 46>>, <<2016, 121>>,
       <<2017, 143>>, <<2018, -245>>, <<2019, 692>>, <<2020, 643>>, <<2021, -626>>,
       <<2022, -1955>>, <<2023, 150>>, <<2024, -147>> >>

\* Bound of the model: the longest horizon asked for.
RetYears == 2

\* The arguments explored: one or two paths, allocations of -0.1, 0, 0.6, 1
\* and 1.5, the four methods and a name that is none of them.
BlendedArgs ==
    [n_simulations : {1, 2}, n_years : 1..RetYears,
     stock_allocation : { <<-1, 10>>, RZero, <<3, 5>>, ROne, <<3, 2>> },
     method : {"bootstrap", "block_bootstrap", "historical", "normal", "other"},
     block_size : {1, 2, 5},
     stock_index : {"sp500", "vt"}, bond_index : {"treasury", "bnd"}]

\* The defaults of the normal method's parameters.
NormalDefaults ==
    [expected_stock_return |-> <<7, 100>>, stock_volatility |-> <<16, 100>>,
     expected_bond_return |-> <<2, 100>>, bond_volatility |-> <<8, 100>>]

\* The series the call samples from, trimmed to the same length.
stock_returns_array(a) ==
    IF a.stock_index = "vt" THEN VT_RETURNS_ARRAY
    ELSE IF a.bond_index = "bnd"
    THEN SubSeq(RETURNS_ARRAY, Len(RETURNS_ARRAY) - Len(BND_RETURNS_ARRAY) + 1,
                Len(RETURNS_ARRAY))
    ELSE RETURNS_ARRAY

MutBondReturnsArrayUntrimmed(a) ==
    IF a.bond_index = "bnd" THEN BND_RETURNS_ARRAY ELSE BOND_RETURNS_ARRAY
bond_returns_array(a) ==
    IF a.stock_index = "vt" /\ a.bond_index = "bnd" THEN Tail(BND_RETURNS_ARRAY)
    ELSE IF a.stock_index = "vt"
    THEN SubSeq(BOND_RETURNS_ARRAY, Len(BOND_RETURNS_ARRAY) - Len(VT_RETURNS_ARRAY) + 1,
                Len(BOND_RETURNS_ARRAY))
    ELSE IF a.bond_index = "bnd" THEN BND_RETURNS_ARRAY
    ELSE BOND_RETURNS_ARRAY

n_historical(a) ==
    IF a.stock_index = "vt" THEN Len(VT_RETURNS_ARRAY)
    ELSE IF a.bond_index = "bnd" THEN Len(BND_RETURNS_ARRAY)
    ELSE Min(Len(RETURNS_ARRAY), Len(BOND_RETURNS_ARRAY))

\* if not 0 <= stock_allocation <= 1
MutAllocationRejectedAboveOnly(a) == RLt(ROne, a.stock_allocation)
AllocationRejected(a) ==
    ~(RLe(RZero, a.stock_allocation) /\ RLe(a.stock_allocation, ROne))

\* rng.integers(0, high): the model keeps the lowest and the highest draw.
IntegerDraws(high) == {0, high - 1}

\* An array of shape (n_simulations, n_years) drawn cell by cell from S.
DrawnArrays(a, S) == [1..a.n_simulations -> [1..a.n_years -> S]]

n_blocks(a) == (a.n_years + a.block_size - 1) \div a.block_size

\* arr[idx] of a series, as a rate.
Cell(arr, idx) == Norm(arr[idx + 1][2], 10000)

\* arr[indices]
BootstrapCells(arr, indices) ==
    [i \in DOMAIN indices |-> [j \in DOMAIN indices[i] |-> Cell(arr, indices[i][j])]]

\* The block copies stock_returns[sim, year_idx:end_idx] =
\* arr[start : start + block_len], as the index read for each cell.
MutBlockIndicesWrapAround(a, starts) ==
    [i \in 1..a.n_simulations |-> [j \in 1..a.n_years |->
        (starts[i][((j - 1) \div a.block_size) + 1] + (j - 1)) % n_historical(a)]]
BlockIndices(a, starts) ==
    [i \in 1..a.n_simulations |-> [j \in 1..a.n_years |->
        LET block == (j - 1) \div a.block_size
            year_idx == block * a.block_size
        IN  starts[i][block + 1] + (j - 1 - year_idx)]]

\* idx = (start_indices[sim] + year) % n_historical, for each cell.
HistoricalIndices(a, start_indices) ==
    [i \in 1..a.n_simulations |-> [j \in 1..a.n_years |->
        (start_indices[i] + (j - 1)) % n_historical(a)]]

\* rng.normal(mean, volatility, size=(n_simulations, n_years))
NormalCells(mean, volatility, z) ==
    [i \in DOMAIN z |-> [j \in DOMAIN z[i] |->
        RAdd(mean, RMul(R(z[i][j]), volatility))]]

\* stock_allocation * stock_returns + bond_allocation * bond_returns
blended_returns(a, stock_returns, bond_returns) ==
    [i \in 1..a.n_simulations |-> [j \in 1..a.n_years |->
        RAdd(RMul(a.stock_allocation, stock_returns[i][j]),
             RMul(RSub(ROne, a.stock_allocation), bond_returns[i][j]))]]

\* A numpy array of two dimensions, as the call returns it.
Ndarray(data) ==
    [kind |-> "ndarray",
     shape |-> <<Len(data), Len(data[1])>>,
     data |-> data]

Raises(name) ==
    /\ ret_outcome' = name
    /\ ret_value' = None
    /\ rng_draws' = 0
    /\ ret_trace' = None

\* The call returns data after draws calls of the generator; drawn is what
\* was drawn, stock_read and bond_read the index read for each cell.
ReturnsArray(data, draws, drawn, stock_read, bond_read) ==
    /\ ret_outcome' = "returned"
    /\ ret_value' = Some(Ndarray(data))
    /\ rng_draws' = draws
    /\ ret_trace' = Some([drawn |-> drawn, stock_read |-> stock_read,
                          bond_read |-> bond_read])

\* The three historical methods past the 100% stocks shortcut: both series
\* are read at the indices idx.
BlendedAt(a, drawn, idx, draws) ==
    ReturnsArray(blended_returns(a, BootstrapCells(stock_returns_array(a), idx),
                                 BootstrapCells(bond_returns_array(a), idx)),
                 draws, drawn, idx, idx)

\* generate_blended_returns(n_simulations, n_years, stock_allocation, method,
\* block_size, stock_index=..., bond_index=..., rng=rng)
GenerateBlendedReturns ==
    \E a \in BlendedArgs :
        /\ ret_args = None
        /\ ret_args' = Some(a)
        /\ IF AllocationRejected(a) THEN Raises("ValueError")
           ELSE IF a.stock_allocation = ROne /\ a.method = "bootstrap"
           THEN \E indices \in DrawnArrays(a, IntegerDraws(n_historical(a))) :
                    ReturnsArray(BootstrapCells(stock_returns_array(a), indices),
                                 1, indices, indices, <<>>)
           ELSE IF a.stock_allocation = ROne /\ a.method = "normal"
           THEN \E z \in DrawnArrays(a, NormalDraws) :
                    ReturnsArray(NormalCells(NormalDefaults.expected_stock_return,
                                             NormalDefaults.stock_volatility, z),
                                 1, z, <<>>, <<>>)
           ELSE IF a.method = "bootstrap"
           THEN \E indices \in DrawnArrays(a, IntegerDraws(n_historical(a))) :
                    BlendedAt(a, indices, indices, 1)
           ELSE IF a.method = "block_bootstrap"
           THEN \E starts \in [1..a.n_simulations -> [1..n_blocks(a) ->
                                 IntegerDraws(n_historical(a) - a.block_size + 1)]] :
                    BlendedAt(a, starts, BlockIndices(a, starts),
                              a.n_simulations * n_blocks(a))
           ELSE IF a.method = "historical"
           THEN \E start_indices \in [1..a.n_simulations ->
                                         IntegerDraws(n_historical(a))] :
                    BlendedAt(a, start_indices,
                              HistoricalIndices(a, start_indices), 1)
           ELSE IF a.method = "normal"
           THEN \E zs \in DrawnArrays(a, NormalDraws), zb \in DrawnArrays(a, NormalDraws) :
                    ReturnsArray(blended_returns(a,
                                    NormalCells(NormalDefaults.expected_stock_return,
                                                NormalDefaults.stock_volatility, zs),
                                    NormalCells(NormalDefaults.expected_bond_return,
                                                NormalDefaults.bond_volatility, zb)),
                                 2, <<zs, zb>>, <<>>, <<>>)
           ELSE Raises("ValueError")
        /\ UNCHANGED <<rmdVars, holdVars, simVars, apiVars>>

InitReturns == IdleReturns /\ IdleRmd /\ IdleHoldings /\ IdleSim /\ IdleApi

NextReturns == GenerateBlendedReturns

SpecReturns == InitReturns /\ [][NextReturns]_vars

-----------------------------------------------------------------------------
(* The claims about the simulator.                                         *)

\* The loop body ran in the last year: some path was active in it.
LastYearRan == n_years >= 1 /\ \E j \in Sims : active(n_years - 1, j)

\* C1: every cell of the path matrix is >= 0, and a path that is at 0 in some
\* year is at 0 in every later year.
C1_PathsNonNegativeAbsorbing ==
    pc # "new" =>
        \A i \in Sims : \A t \in Years :
            /\ RLe(RZero, paths[i][t])
            /\ paths[i][t] = RZero => \A u \in Years : u > t => paths[i][u] = RZero

\* A finished run in which a path was at 0 after the first year while the
\* loop body still ran in the last year.
C1_Witness ==
    /\ pc = "done"
    /\ n_years >= 2
    /\ LastYearRan
    /\ \E i \in Sims : RLt(RZero, paths[i][0]) /\ paths[i][1] = RZero

\* C2: failure_year starts at the sentinel n_years + 1; a step changes it only
\* from the sentinel, only to year + 1, and only in the first year in which the
\* path goes from a positive value to 0; once set it is never changed.
C2_FailureYearWriteOnce ==
    [][ IF pc = "new"
        THEN pc' = "loop" => \A i \in Sims : failure_year'[i] = n_years + 1
        ELSE pc' # "new" => \A i \in Sims :
                /\ failure_year[i] # n_years + 1 => failure_year'[i] = failure_year[i]
                /\ failure_year'[i] # failure_year[i] =>
                    /\ failure_year'[i] = year + 1
                    /\ RLt(RZero, paths[i][year])
                    /\ paths'[i][year + 1] = RZero
                    /\ \A t \in 0..(year - 1) :
                          ~(RLt(RZero, paths[i][t]) /\ paths[i][t + 1] = RZero)
      ]_vars

\* A finished run in which a path failed in the first year and the loop body
\* ran again in the last year.
C2_Witness ==
    /\ pc = "done"
    /\ n_years >= 2
    /\ LastYearRan
    /\ \E i \in Sims : failure_year[i] = 1

\* C3: with mortality, a path counts as a success iff it never depleted or its
\* individuals were already dead in the year it depleted; success_rate is the
\* fraction of such paths.
DiedBeforeDepletion(i) ==
    failure_year[i] <= n_years /\ ~either_alive[i][failure_year[i] - 1]
ClaimedSuccess(i) == failure_year[i] > n_years \/ DiedBeforeDepletion(i)
C3_DepletedWhileAliveIsFailure ==
    (pc = "done" /\ p.include_mortality) =>
        Get(result).success_rate
            = Mean([i \in Sims |-> Indicator(ClaimedSuccess(i))], Sims)

\* C4: when the guaranteed income covers the spending in every year on every
\* path, the success rate is 1.
SpendingCovered ==
    \A y \in 0..(n_years - 1) : \A i \in Sims :
        RLe(annual_spending, total_guaranteed(y, i))
C4_CoveredSpendingAlwaysSucceeds ==
    (pc = "done" /\ SpendingCovered) => Get(result).success_rate = ROne

\* C5: run_with_progress has yielded exactly the progress events of the years
\* 0..year in order, each with total_years = n_years, and, once finished, one
\* complete event after the progress event of year n_years.
ExpectedProgress(k) == [j \in 1..k |-> ProgressEvent(j - 1)]
C5_ProgressThenComplete ==
    mode = "run_with_progress" =>
        CASE pc = "new" -> events = <<>>
          [] pc = "done" ->
                /\ Len(events) = n_years + 2
                /\ SubSeq(events, 1, n_years + 1) = ExpectedProgress(n_years + 1)
                /\ events[n_years + 2].type = "complete"
                /\ events[n_years + 2].result = result
          [] OTHER -> events = ExpectedProgress(year + 1)

\* A finished run_with_progress whose last year was skipped.
C5_Witness ==
    /\ pc = "done"
    /\ mode = "run_with_progress"
    /\ n_years >= 2
    /\ ~LastYearRan

\* C6: a second run on the same input ends with the result of the first.
C6_SameInputSameResult ==
    (run_no = 2 /\ pc = "done") => result = first_result

\* C7: once the tax service has raised, the run has ended without a result and
\* without a complete event.
C7_TaxFailureAborts ==
    tax_failed =>
        /\ pc = "raised"
        /\ result = None
        /\ \A k \in 1..Len(events) : events[k].type # "complete"

\* The tax service raised after at least one simulated year.
C7_Witness ==
    /\ tax_failed
    /\ pc = "raised"
    /\ year >= 1
    /\ mode = "run_with_progress"
    /\ Len(events) = year + 1

-----------------------------------------------------------------------------
(* The claims about the RMD calculator.                                    *)

\* The period the table gives an age, in tenths of a year, read off the
\* table's rows; past the last row, the last row.
PeriodTenths(age) ==
    IF age > TABLE_MAX_AGE THEN UniformLifetimeTenths[Len(UniformLifetimeTenths)]
    ELSE UniformLifetimeTenths[age - 71]

\* C8: calculate_rmd returns 0 for every age under 73 and for every balance
\* <= 0; for age >= 73 and a positive balance it returns the balance divided
\* by the table's period for the age: 26.5 at 73, and 2.0 (the entry of age
\* 120) at every age above 120.
C8_CalculateRmd ==
    rmd_call = "calculate_rmd" =>
        LET r == Get(rmd_result)
        IN  /\ rmd_age < 73 => r = RZero
            /\ RLe(rmd_balance, RZero) => r = RZero
            /\ (rmd_age >= 73 /\ RLt(RZero, rmd_balance)) =>
                  /\ RMul(r, Norm(PeriodTenths(rmd_age), 10)) = rmd_balance
                  /\ rmd_age = 73 => RMul(r, <<53, 2>>) = rmd_balance
                  /\ rmd_age > 120 => RMul(r, R(2)) = rmd_balance

C8_Witness ==
    /\ rmd_call = "calculate_rmd"
    /\ rmd_age > 120
    /\ RLt(RZero, rmd_balance)
    /\ RLt(RZero, Get(rmd_result))

-----------------------------------------------------------------------------
(* The claims about the holdings tracker.                                  *)

\* C9: at every age >= 73, whatever the strategy and the amount asked for,
\* withdraw lowers the traditional balance by at least the RMD computed from
\* the traditional balance at the start of the call, and returns that RMD as
\* traditional_rmd.
C9_RmdAlwaysWithdrawn ==
    (h_call = "withdraw" /\ h_age >= 73) =>
        \A i \in TrackerSims :
            LET before == traditional_balance(h_before)[i]
                after == traditional_balance(holdings)[i]
                due == calculate_rmd(before, h_age)
            IN  /\ RLe(due, RSub(before, after))
                /\ h_result.traditional_rmd[i] = due

\* An RMD is due and the amount asked for is smaller than it.
C9_Witness ==
    /\ h_call = "withdraw"
    /\ h_age >= 73
    /\ \E i \in TrackerSims :
          LET due == calculate_rmd(traditional_balance(h_before)[i], h_age)
          IN  /\ RLt(RZero, due)
              /\ RLt(h_amount[i], due)
              /\ h_result.traditional_rmd[i] = due

\* What C10 promises of path i: no traditional or Roth holding changed, and
\* the taxable balance is down by exactly the amount.
OnlyTaxableCharged(i) ==
    /\ \A k \in DOMAIN holdings :
          holdings[k].account_type \notin TAXABLE_ACCOUNTS =>
              holdings[k].balance[i] = h_before[k].balance[i]
    /\ taxable_balance(holdings)[i] = RSub(taxable_balance(h_before)[i], h_amount[i])

\* No RMD is due on path i: the age is under 73 or nothing is held in
\* traditional accounts.
NoRmdDue(i) == h_age < 73 \/ traditional_balance(h_before)[i] = RZero

\* C10 as stated: under taxable_first, a withdraw of an amount <= the taxable
\* balance leaves every traditional and Roth holding unchanged and lowers the
\* taxable balance by exactly the amount.
C10_TaxableFirstWithinTaxable ==
    (h_call = "withdraw" /\ withdrawal_strategy = "taxable_first") =>
        \A i \in TrackerSims :
            RLe(h_amount[i], taxable_balance(h_before)[i]) => OnlyTaxableCharged(i)

\* C10 amended: the same, for a call in which no RMD is due.
C10_TaxableFirstWithinTaxableNoRmd ==
    (h_call = "withdraw" /\ withdrawal_strategy = "taxable_first") =>
        \A i \in TrackerSims :
            (RLe(h_amount[i], taxable_balance(h_before)[i]) /\ NoRmdDue(i))
                => OnlyTaxableCharged(i)

C10_Witness ==
    /\ h_call = "withdraw"
    /\ withdrawal_strategy = "taxable_first"
    /\ h_age < 73
    /\ \E i \in TrackerSims :
          /\ RLt(RZero, h_amount[i])
          /\ RLe(h_amount[i], taxable_balance(h_before)[i])
          /\ RLt(RZero, traditional_balance(h_before)[i])
          /\ RLt(RZero, roth_balance(h_before)[i])

\* By how much the call lowered the traditional balance of path i.
TraditionalDown(i) ==
    RSub(traditional_balance(h_before)[i], traditional_balance(holdings)[i])

\* The RMD due on path i at the start of the call.
RmdDue(i) == calculate_rmd(traditional_balance(h_before)[i], h_age)

\* C11 as stated: under taxable_first, a withdraw of an amount above the
\* taxable balance leaves the taxable balance at exactly zero and takes the
\* remainder, the amount minus the former taxable balance, from the
\* traditional holdings.
C11_TaxableFirstCascades ==
    (h_call = "withdraw" /\ withdrawal_strategy = "taxable_first") =>
        \A i \in TrackerSims :
            RLt(taxable_balance(h_before)[i], h_amount[i]) =>
                /\ taxable_balance(holdings)[i] = RZero
                /\ TraditionalDown(i) = RSub(h_amount[i], taxable_balance(h_before)[i])

\* C11 amended: under taxable_first, a withdraw of an amount above the
\* taxable balance plus the RMD due leaves the taxable balance at exactly
\* zero and takes the remainder, the amount minus the former taxable balance,
\* from the traditional holdings as far as the traditional balance reaches.
C11_TaxableFirstCascadesCapped ==
    (h_call = "withdraw" /\ withdrawal_strategy = "taxable_first") =>
        \A i \in TrackerSims :
            RLt(RAdd(taxable_balance(h_before)[i], RmdDue(i)), h_amount[i]) =>
                /\ taxable_balance(holdings)[i] = RZero
                /\ TraditionalDown(i) =
                      RMin(RSub(h_amount[i], taxable_balance(h_before)[i]),
                           traditional_balance(h_before)[i])

\* An RMD is due, the taxable balance is exhausted and the traditional
\* holdings cover the remainder with money to spare.
C11_Witness ==
    /\ h_call = "withdraw"
    /\ withdrawal_strategy = "taxable_first"
    /\ \E i \in TrackerSims :
          /\ RLt(RZero, RmdDue(i))
          /\ RLt(RZero, taxable_balance(h_before)[i])
          /\ RLt(RAdd(taxable_balance(h_before)[i], RmdDue(i)), h_amount[i])
          /\ RLt(RSub(h_amount[i], taxable_balance(h_before)[i]),
                 traditional_balance(h_before)[i])
          /\ taxable_balance(holdings)[i] = RZero

\* The holdings when the discretionary phase of the call starts: the RMD the
\* call reports has been taken from the traditional holdings.
AfterRmd == withdraw_from_category(h_before, TRADITIONAL_ACCOUNTS, h_result.traditional_rmd)

\* The need the discretionary phase starts with on path i.
DiscretionaryNeed(i) == RMax(RZero, RSub(h_amount[i], h_result.traditional_rmd[i]))

\* The share C12 gives a category on path i: the need times the category's
\* fraction of the total balance, capped at the category's balance.
SimultaneousShare(category, i) ==
    LET cat == get_balance_by_account_category(AfterRmd, category)[i]
        total == total_balance(AfterRmd)[i]
    IN  IF RLt(RZero, total)
        THEN RMin(RMul(DiscretionaryNeed(i), RDiv(cat, total)), cat)
        ELSE RZero

\* C12: under pro_rata, each of the three categories is charged the remaining
\* need times its fraction of the total balance at the start of the
\* withdrawal, capped at its balance, as if the three were charged at once.
C12_ProRataSimultaneous ==
    (h_call = "withdraw" /\ withdrawal_strategy = "pro_rata") =>
        \A i \in TrackerSims :
            /\ h_result.taxable[i] = SimultaneousShare(TAXABLE_ACCOUNTS, i)
            /\ h_result.traditional[i] = SimultaneousShare(TRADITIONAL_ACCOUNTS, i)
            /\ h_result.roth[i] = SimultaneousShare(ROTH_ACCOUNTS, i)

\* What the call took out of the portfolio on path i: the sum of the
\* decreases of all holding balances.
Extracted(i) == RSub(total_balance(h_before)[i], total_balance(holdings)[i])

\* C13: the total field withdraw returns is what the call took out of the
\* portfolio, and it is below the amount asked for only if every balance is
\* zero after the call.
C13_TotalIsExtracted ==
    h_call = "withdraw" =>
        \A i \in TrackerSims :
            /\ h_result.total[i] = Extracted(i)
            /\ RLt(h_result.total[i], h_amount[i]) => total_balance(holdings)[i] = RZero

\* The priority order each ordered strategy states, by result key.
StatedPriority ==
    [taxable_first |-> <<"taxable", "traditional", "roth">>,
     traditional_first |-> <<"traditional", "taxable", "roth">>,
     roth_first |-> <<"roth", "taxable", "traditional">>]

CategoryOf(key) ==
    IF key = "taxable" THEN TAXABLE_ACCOUNTS
    ELSE IF key = "traditional" THEN TRADITIONAL_ACCOUNTS
    ELSE ROTH_ACCOUNTS

\* The need left on path i when the n-th category of the order is visited.
LeftoverNeed(order, n, i) ==
    RSub(DiscretionaryNeed(i), RSum([m \in 1..(n - 1) |-> h_result[order[m]][i]], 1..(n - 1)))

\* C19: under taxable_first, traditional_first and roth_first the
\* discretionary phase visits the categories in the stated order, takes
\* min(remaining need, category balance) from each and hands the leftover to
\* the next, so a category is charged only when every category ahead of it
\* has been drained to zero.
C19_OrderedCascade ==
    (h_call = "withdraw" /\ withdrawal_strategy \in DOMAIN StatedPriority) =>
        LET order == StatedPriority[withdrawal_strategy]
        IN  \A i \in TrackerSims : \A n \in 1..3 :
                /\ h_result[order[n]][i] =
                      RMin(LeftoverNeed(order, n, i),
                           get_balance_by_account_category(AfterRmd, CategoryOf(order[n]))[i])
                /\ RLt(RZero, h_result[order[n]][i]) =>
                      \A m \in 1..(n - 1) :
                          get_balance_by_account_category(holdings, CategoryOf(order[m]))[i] = RZero

\* The need reaches the last category of the order through two that held money.
C19_Witness ==
    /\ h_call = "withdraw"
    /\ withdrawal_strategy \in DOMAIN StatedPriority
    /\ LET order == StatedPriority[withdrawal_strategy]
       IN  \E i \in TrackerSims :
              /\ \A n \in 1..3 : RLt(RZero, h_result[order[n]][i])
              /\ RLt(RZero, get_balance_by_account_category(holdings, CategoryOf(order[3]))[i])

\* C20: from non-negative balances, after any sequence of apply_growth (price
\* growth >= -1), get_dividends and withdraw calls with non-negative amounts,
\* every holding balance on every path is >= 0, and get_dividends changes no
\* balance.
C20_BalancesNonNegative ==
    /\ \A k \in DOMAIN holdings : \A i \in TrackerSims :
          RLe(RZero, holdings[k].balance[i])
    /\ h_call = "get_dividends" => holdings = h_before

\* Dividends are read after two calls that left one holding empty and
\* another with money.
C20_Witness ==
    /\ h_call = "get_dividends"
    /\ h_calls >= 2
    /\ \E i \in TrackerSims :
          /\ \E k \in DOMAIN holdings : holdings[k].balance[i] = RZero
          /\ \E k \in DOMAIN holdings : RLt(RZero, holdings[k].balance[i])
          /\ RLt(RZero, h_result.taxable[i])

\* ---- depletion and the years the loop skips ----

OwnYear(i, r, s) ==
    LET ret == [j \in Sims |-> r]
        tax == [j \in Sims |-> TaxAnswer(s, year, j)]
    IN  IF active(year, i)
        THEN /\ paths'[i][year + 1] = clamped_value(ret, tax, year, i)
             /\ failure_year'[i] =
                    IF depleted_mask(ret, tax, year, i) THEN year + 1
                    ELSE failure_year[i]
        ELSE /\ paths'[i][year + 1] = paths[i][year + 1]
             /\ failure_year'[i] = failure_year[i]

\* C17: each path is an independent trajectory: what a year writes for path i
\* is determined by path i's own value, alive mask, return and tax result,
\* whether or not another path is still active in that year.
C17_PathsIndependent ==
    [][(pc = "loop" /\ year' = year + 1) =>
            \A i \in Sims : \E r \in Returns, s \in TaxSchedules : OwnYear(i, r, s)]_vars

\* ---- the tax treatment of the withdrawals ----

\* What HoldingsTracker.withdraw(net_need, age) returns in the first year of a
\* run whose input gives holdings.
FirstYearWithdrawal ==
    withdraw(TrackerInit(p.holdings), p.withdrawal_strategy,
             [i \in TrackerSims |-> net_need(0, i)], p.current_age).result

FirstYearTaxCall == tax_call # None /\ Get(tax_call).ages[1] = p.current_age

\* C16: when the input gives holdings, the tax service is sent the traditional
\* withdrawals (RMD plus discretionary) as ordinary income and the taxable
\* withdrawals as capital gains; only an input without holdings has its whole
\* net need sent as capital gains.  Stated for the call of the first year,
\* when the tracker still holds the input's balances.
C16_WithdrawalsTaxedByCategory ==
    FirstYearTaxCall =>
        \A i \in Sims :
            IF p.holdings # <<>>
            THEN /\ Get(tax_call).capital_gains_array[i] = FirstYearWithdrawal.taxable[i]
                 /\ Get(tax_call).employment_income_array[i] =
                        RAdd(RAdd(employment(0), spouse_employment(0, i)),
                             RAdd(FirstYearWithdrawal.traditional_rmd[i],
                                  FirstYearWithdrawal.traditional[i]))
            ELSE Get(tax_call).capital_gains_array[i] = net_need(0, i)

-----------------------------------------------------------------------------
(* The claims about the return generators.                                 *)

\* C14: generate_blended_returns with a stock_allocation below 0 or above 1
\* raises ValueError before any random draw and returns no array, whatever
\* the method and the indexes.
C14_AllocationOutOfRangeRaises ==
    (ret_args # None
        /\ (RLt(Get(ret_args).stock_allocation, RZero)
            \/ RLt(ROne, Get(ret_args).stock_allocation)))
    => (ret_outcome = "ValueError" /\ rng_draws = 0 /\ ret_value = None)

\* An allocation of -0.1 was refused for the normal method on the S&P 500 and
\* Treasury series.
C14_Witness ==
    /\ ret_args # None
    /\ Get(ret_args).stock_allocation = <<-1, 10>>
    /\ Get(ret_args).method = "normal"
    /\ Get(ret_args).stock_index = "sp500"
    /\ Get(ret_args).bond_index = "treasury"
    /\ ret_outcome = "ValueError"
    /\ rng_draws = 0

\* C15: every method returns a pair (price_growth, dividend_yield) of arrays
\* of shape exactly (n_simulations, n_years), every cell filled, for every
\* allocation in [0, 1].
C15_ReturnsPairOfShapedArrays ==
    (ret_args # None
        /\ Get(ret_args).method \in {"bootstrap", "block_bootstrap", "historical", "normal"}
        /\ RLe(RZero, Get(ret_args).stock_allocation)
        /\ RLe(Get(ret_args).stock_allocation, ROne))
    => /\ ret_outcome = "returned"
       /\ Get(ret_value).kind = "tuple"
       /\ Len(Get(ret_value).items) = 2
       /\ \A k \in 1..2 :
            /\ Get(ret_value).items[k].kind = "ndarray"
            /\ Get(ret_value).items[k].shape =
                    <<Get(ret_args).n_simulations, Get(ret_args).n_years>>

\* ---- empty categories ----

\* What the result dict reports for a category on path i.
Reported(category, i) ==
    IF category = TRADITIONAL_ACCOUNTS
    THEN RAdd(h_result.traditional_rmd[i], h_result.traditional[i])
    ELSE h_result[CategoryKey(category)][i]

Categories == {TRADITIONAL_ACCOUNTS, ROTH_ACCOUNTS, TAXABLE_ACCOUNTS}

\* C21: a withdraw call is not upset by an empty category: on a path where a
\* category's total balance is zero (or the tracker has no holding in it) the
\* category contributes zero, none of its holdings changes, and every number
\* returned is defined; this for the RMD step and every strategy, an empty
\* portfolio included.
C21_EmptyCategoryContributesZero ==
    h_call = "withdraw" =>
        \A i \in TrackerSims :
            /\ \A key \in DOMAIN h_result : h_result[key][i][2] > 0
            /\ \A category \in Categories :
                get_balance_by_account_category(h_before, category)[i] = RZero =>
                    /\ Reported(category, i) = RZero
                    /\ \A k \in DOMAIN holdings :
                          holdings[k].account_type \in category =>
                              holdings[k].balance[i] = h_before[k].balance[i]

\* A pro_rata withdraw of a positive amount at RMD age from a portfolio whose
\* every balance is zero on some path.
C21_Witness ==
    /\ h_call = "withdraw"
    /\ withdrawal_strategy = "pro_rata"
    /\ h_age >= 73
    /\ \E i \in TrackerSims :
          /\ total_balance(h_before)[i] = RZero
          /\ RLt(RZero, h_amount[i])
          /\ h_result.total[i] = RZero

\* ---- conservation ----

\* By how much the call lowered the balance of a category on path i.
CategoryDown(category, i) ==
    RSub(get_balance_by_account_category(h_before, category)[i],
         get_balance_by_account_category(holdings, category)[i])

\* C29: a withdraw call conserves money per category: on every path the
\* traditional balance falls by traditional_rmd + traditional, the Roth
\* balance by roth, the taxable balance by taxable; no reported component
\* exceeds its category's balance before the call and no balance rises.
C29_WithdrawConservesPerCategory ==
    h_call = "withdraw" =>
        \A i \in TrackerSims :
            /\ \A category \in Categories :
                  CategoryDown(category, i) = Reported(category, i)
            /\ RLe(h_result.traditional_rmd[i], traditional_balance(h_before)[i])
            /\ RLe(h_result.traditional[i], traditional_balance(h_before)[i])
            /\ RLe(h_result.roth[i], roth_balance(h_before)[i])
            /\ RLe(h_result.taxable[i], taxable_balance(h_before)[i])
            /\ \A k \in DOMAIN holdings :
                  RLe(holdings[k].balance[i], h_before[k].balance[i])

\* A withdraw that took an RMD and a discretionary amount from two
\* traditional holdings and emptied a taxable category of one holding.
C29_Witness ==
    /\ h_call = "withdraw"
    /\ \E i \in TrackerSims :
          /\ RLt(RZero, h_result.traditional_rmd[i])
          /\ RLt(RZero, h_result.traditional[i])
          /\ RLt(RZero, h_result.taxable[i])
          /\ taxable_balance(holdings)[i] = RZero
          /\ \E k1, k2 \in DOMAIN holdings :
                /\ k1 # k2
                /\ holdings[k1].account_type \in TRADITIONAL_ACCOUNTS
                /\ holdings[k2].account_type \in TRADITIONAL_ACCOUNTS
                /\ RLt(holdings[k1].balance[i], h_before[k1].balance[i])
                /\ RLt(holdings[k2].balance[i], h_before[k2].balance[i])

HistoricalMethods == {"bootstrap", "block_bootstrap", "historical"}

\* C22: with bootstrap, block_bootstrap or historical, the stock value and the
\* bond value of a cell are read at the same historical index, and for each
\* pair of indexes the trimmed stock and bond series have the same length and
\* the same calendar year at every index.
C22_StockAndBondCoDated ==
    (ret_outcome = "returned" /\ Get(ret_args).method \in HistoricalMethods) =>
        LET a == Get(ret_args)
            stock == stock_returns_array(a)
            bond == bond_returns_array(a)
            reads == Get(ret_trace)
        IN  /\ Len(stock) = Len(bond)
            /\ \A k \in 1..Len(stock) : stock[k][1] = bond[k][1]
            /\ reads.bond_read # <<>> =>
                  \A i \in 1..a.n_simulations : \A j \in 1..a.n_years :
                      /\ reads.stock_read[i][j] = reads.bond_read[i][j]
                      /\ reads.stock_read[i][j] \in 0..(Len(stock) - 1)

\* A historical walk over Total World stocks and Treasury bonds that wrapped
\* from the last year of the series to the first.
C22_Witness ==
    /\ ret_outcome = "returned"
    /\ Get(ret_args).method = "historical"
    /\ Get(ret_args).stock_index = "vt"
    /\ Get(ret_args).bond_index = "treasury"
    /\ Get(ret_args).n_years >= 2
    /\ Get(ret_trace).bond_read[1][1] = n_historical(Get(ret_args)) - 1
    /\ Get(ret_trace).bond_read[1][2] = 0

C24_AnnuityIncomeByType ==
    (pc # "new" /\ p.has_annuity /\ p.annuity # None) =>
        \A y \in 0..(n_years - 1) : \A i \in Sims :
            LET a == Get(p.annuity)
                paid == CASE a.annuity_type = "fixed_period" ->
                                y < a.guarantee_years
                          [] a.annuity_type = "life_with_guarantee" ->
                                y < a.guarantee_years \/ primary_alive[i][y]
                          [] a.annuity_type = "life_only" -> primary_alive[i][y]
            IN  annuity_income(y, i) =
                    IF paid THEN R(a.monthly_payment * 12) ELSE RZero

\* A year past the guarantee of a life_with_guarantee annuity was simulated
\* on a path whose primary had died and whose spouse was alive: no annuity.
C24_Witness ==
    /\ pc = "loop"
    /\ p.has_annuity /\ p.annuity # None
    /\ Get(p.annuity).annuity_type = "life_with_guarantee"
    /\ \E i \in Sims : \E y \in 0..(n_years - 1) :
          /\ y < year
          /\ y >= Get(p.annuity).guarantee_years
          /\ ~primary_alive[i][y]
          /\ either_alive[i][y]
          /\ RLt(RZero, paths[i][y + 1])
          /\ annuity_income(y, i) = RZero

\* C25: each year the net need drawn from the portfolio is
\* max(0, annual_spending - guaranteed income - dividends), and without
\* holdings the next value is value + value * return - gross_withdrawal with
\* gross_withdrawal = net need + tax: the dividends lower the need and are not
\* added to the balance.  The net need of a path is read off its accumulators:
\* what the year added to total_withdrawn less what it added to total_taxes.
C25_DividendsReduceNetNeed ==
    [][(pc = "loop" /\ year' = year + 1 /\ p.holdings = <<>>) =>
        \A i \in Sims : active(year, i) =>
            LET gross == RSub(total_withdrawn'[i], total_withdrawn[i])
                tax == RSub(total_taxes'[i], total_taxes[i])
                value == paths[i][year]
            IN  /\ RSub(gross, tax) =
                      RMax(RZero, RSub(RSub(annual_spending, total_guaranteed(year, i)),
                                       dividends(year, i)))
                /\ \E r \in Returns :
                      paths'[i][year + 1] =
                          RMax(RZero, RSub(RAdd(value, RMul(value, r)), gross))]_vars

\* ---- the ten-year failure probability ----

\* Path i went from a positive value to zero within the first ten simulated
\* years.
DepletedWithinTenYears(i) ==
    \E t \in 0..(Min(TEN_YEARS, n_years) - 1) :
        RLt(RZero, paths[i][t]) /\ paths[i][t + 1] = RZero

\* C27: prob_10_year_failure is the fraction of paths that went from a
\* positive value to zero within the first ten simulated years, whatever the
\* horizon n_years: a path that never depletes is not counted.
C27_TenYearFailureCountsDepletions ==
    pc = "done" =>
        Get(result).prob_10_year_failure =
            Mean([i \in Sims |-> Indicator(DepletedWithinTenYears(i))], Sims)

-----------------------------------------------------------------------------
(* The finsim package behind src/api/main.py: compare_to_annuity (and the   *)
(* eggnest version of it), and MonteCarloSimulator.run.                     *)

\* ---- compare_to_annuity ----
INVESTING == "Consider investing - high probability of exceeding annuity returns with low depletion risk."
ANNUITY == "Consider the annuity - simulation shows significant depletion risk."
MIXED == "Mixed results - consider a hybrid approach or consult a financial advisor."

\* What both versions do around the probability prob_beats(sim_total,
\* annuity_total) they compute: the totals, the recommendation, the dict.
Comparison(simulation_result, annuity_monthly_payment, annuity_guarantee_years, prob_beats) ==
    LET annuity_total == RMul(RMul(annuity_monthly_payment, R(12)), R(annuity_guarantee_years))
        sim_total == RSub(simulation_result.total_withdrawn_median,
                          simulation_result.total_taxes_median)
        prob == prob_beats[RLt(annuity_total, sim_total)]
        recommendation ==
            IF RLt(<<9, 10>>, simulation_result.success_rate) /\ RLt(<<6, 10>>, prob)
            THEN INVESTING
            ELSE IF RLt(simulation_result.success_rate, <<7, 10>>) THEN ANNUITY
            ELSE MIXED
    IN  [annuity_total_guaranteed |-> annuity_total,
         probability_simulation_beats_annuity |-> prob,
         simulation_median_total_income |-> sim_total,
         recommendation |-> recommendation]

\* eggnest: 0.7 for a success rate above 0.9 that beats the annuity, 0.5 for
\* any other success rate above 0.8, else 0.3.
compare_to_annuity(simulation_result, annuity_monthly_payment, annuity_guarantee_years) ==
    Comparison(simulation_result, annuity_monthly_payment, annuity_guarantee_years,
        [beats \in BOOLEAN |->
            IF RLt(<<9, 10>>, simulation_result.success_rate) /\ beats THEN <<7, 10>>
            ELSE IF RLt(<<8, 10>>, simulation_result.success_rate) THEN <<5, 10>>
            ELSE <<3, 10>>])

\* finsim: 0.5 if the simulation's total beats the annuity's, else 0.3.
finsim_compare_to_annuity(simulation_result, annuity_monthly_payment, annuity_guarantee_years) ==
    Comparison(simulation_result, annuity_monthly_payment, annuity_guarantee_years,
        [beats \in BOOLEAN |-> IF beats THEN <<5, 10>> ELSE <<3, 10>>])

\* The calls the model makes: the fields of the SimulationResult that
\* compare_to_annuity reads, the payment, the guarantee period.  (n_years is
\* passed and never read.)
CompareArgs ==
    [version : {"eggnest", "finsim"},
     simulation_result :
        [success_rate : {RZero, <<1, 2>>, <<7, 10>>, <<4, 5>>, <<9, 10>>, <<19, 20>>, ROne},
         total_withdrawn_median : {R(40), R(100)},
         total_taxes_median : {RZero, R(20)}],
     annuity_monthly_payment : {R(1), R(5)},
     annuity_guarantee_years : {1, 20}]

Compared(a) ==
    IF a.version = "eggnest"
    THEN compare_to_annuity(a.simulation_result, a.annuity_monthly_payment,
                            a.annuity_guarantee_years)
    ELSE finsim_compare_to_annuity(a.simulation_result, a.annuity_monthly_payment,
                                   a.annuity_guarantee_years)

CompareToAnnuity ==
    /\ cmp_args = None
    /\ fin_params = None
    /\ \E a \in CompareArgs :
        /\ cmp_args' = Some(a)
        /\ cmp_value' = Some(Compared(a))
    /\ UNCHANGED <<fin_params, fin_outcome, rmdVars, holdVars, simVars, retVars>>

\* ---- finsim MonteCarloSimulator.run ----
\* The fields finsim/models.py declares for SimulationInput.
SimulationInputFields ==
    {"initial_capital", "annual_spending", "current_age", "max_age", "gender",
     "target_monthly_income", "social_security_monthly", "pension_annual",
     "employment_income", "employment_growth_rate", "retirement_age", "state",
     "filing_status", "has_spouse", "spouse", "has_annuity", "annuity",
     "n_simulations", "include_mortality", "expected_return",
     "return_volatility", "dividend_yield"}

\* SimulationInput objects: the declared defaults, and the fields the run
\* would read set to a few values.
FinsimInputs ==
    { [f \in SimulationInputFields |->
        CASE f = "initial_capital" -> R(c)
          [] f = "annual_spending" -> R(24)
          [] f = "current_age" -> age
          [] f = "max_age" -> 95
          [] f = "gender" -> "male"
          [] f = "target_monthly_income" -> t
          [] f = "social_security_monthly" -> R(ss)
          [] f = "retirement_age" -> 65
          [] f = "state" -> "CA"
          [] f = "filing_status" -> "single"
          [] f \in {"has_spouse", "has_annuity"} -> FALSE
          [] f \in {"spouse", "annuity"} -> None
          [] f = "n_simulations" -> 100
          [] f = "include_mortality" -> TRUE
          [] f = "expected_return" -> <<5, 100>>
          [] f = "return_volatility" -> <<16, 100>>
          [] f = "dividend_yield" -> <<2, 100>>
          [] f = "employment_growth_rate" -> <<3, 100>>
          [] OTHER -> RZero] :
        c \in {100, 1000}, age \in {60, 65, 94}, t \in {None, Some(R(2))}, ss \in {0, 1} }

\* run, called once on a new simulator.  Its first statement reads
\* self.params.n_years, which SimulationInput does not declare: pydantic raises
\* AttributeError for the read, before the year loop, and nothing in run
\* catches it.
FinsimRun ==
    /\ fin_params = None
    /\ cmp_args = None
    /\ \E q \in FinsimInputs :
        /\ "n_years" \notin DOMAIN q
        /\ fin_params' = Some(q)
        /\ fin_outcome' = "AttributeError"
    /\ UNCHANGED <<cmp_args, cmp_value, rmdVars, holdVars, simVars, retVars>>

InitApi == IdleApi /\ IdleReturns /\ IdleRmd /\ IdleHoldings /\ IdleSim

NextApi == CompareToAnnuity \/ FinsimRun

SpecApi == InitApi /\ [][NextApi]_vars

-----------------------------------------------------------------------------
(* The claims about compare_to_annuity and the finsim simulator.            *)

Recommendations == {INVESTING, ANNUITY, MIXED}

\* The versions of compare_to_annuity for which some call of the model returns
\* the recommendation text.
VersionsReaching(text) ==
    { a.version : a \in { b \in CompareArgs : Compared(b).recommendation = text } }

\* C30: the recommendation compare_to_annuity returns is "Consider investing"
\* when success_rate > 0.9 and the probability of beating the annuity is > 0.6,
\* "Consider the annuity" when success_rate < 0.7 and "Mixed results" otherwise,
\* and each of the three is returned for some input by the eggnest version and
\* by the finsim version.
C30_ThreeRecommendationsEachReachable ==
    cmp_value # None =>
        LET success_rate == Get(cmp_args).simulation_result.success_rate
            prob == Get(cmp_value).probability_simulation_beats_annuity
        IN  /\ Get(cmp_value).recommendation =
                    IF RLt(<<9, 10>>, success_rate) /\ RLt(<<6, 10>>, prob) THEN INVESTING
                    ELSE IF RLt(success_rate, <<7, 10>>) THEN ANNUITY
                    ELSE MIXED
            /\ \A text \in Recommendations :
                    VersionsReaching(text) = {"eggnest", "finsim"}

\* C26: a run of the finsim MonteCarloSimulator always ends by returning a
\* SimulationResult: a failure of the tax service in some year is answered with
\* the estimate and the remaining years are simulated, so no call of run ends
\* in an exception.
C26_FinsimRunAlwaysReturns ==
    fin_params # None => fin_outcome = "returned"

====
